---- MODULE Spec2Model ----
(***************************************************************************)
(* Vacancy pipeline of statelinecat/Jobs.                                  *)
(*                                                                         *)
(*   main.py      async_job: parse_vacancies -> filter_new_vacancies ->    *)
(*                send_telegram_alert, one cycle per scheduler tick        *)
(*   notifier.py  check_and_notify: get_new_vacancies -> get_active_users  *)
(*                -> send_telegram_message / mark_as_sent, every 5 minutes *)
(*   bot.py       /start and /stop, which insert and delete users rows     *)
(*                                                                         *)
(* The three programs are separate OS processes sharing vacancies.db and   *)
(* users.db; they interleave at the granularity of their store operations  *)
(* and of their sends.                                                     *)
(***************************************************************************)
EXTENDS Integers, Sequences, FiniteSets, Bags, TLC

\* ---------------------------------------------------------------- bounds
MaxLinks   == 3    \* distinct links the listing source can return
MaxTitles  == 2    \* distinct attribute values a record can carry
MaxUsers   == 2    \* distinct chat ids
MaxBatch   == 2    \* records in one parsed batch
SysLinks   == 2    \* distinct links met while all three programs interleave
SysBatch   == 1    \* records in one parsed batch while they interleave
QueryLimit == 2    \* get_new_vacancies(limit=50), scaled down so that the
                   \* limit can be exceeded within MaxLinks postings

NumRegions == 3    \* entries of REGIONS queried in one cycle
MaxUrls    == 4    \* distinct alternate_url strings the source can return
MaxItems   == 1    \* items in the answer for one region

Links  == 1..MaxLinks
Titles == 1..MaxTitles
Users  == 1..MaxUsers

\* a parsed vacancy (the dict built by parse_vacancies); link is the dedup
\* key, title stands for every other attribute
Vacancy == [link : Links, title : Titles]

RECURSIVE SeqsUpTo(_, _)
SeqsUpTo(S, n) ==
    IF n = 0 THEN {<<>>}
    ELSE LET shorter == SeqsUpTo(S, n - 1)
         IN  shorter \cup {Append(s, x) : s \in {t \in shorter : Len(t) = n - 1}, x \in S}

Batches == SeqsUpTo(Vacancy, MaxBatch)

\* the batches met while all three programs interleave
SysBatches == SeqsUpTo([link : 1..SysLinks, title : {1}], SysBatch)

\* outcome of the store operations of one loop iteration of
\* filter_new_vacancies: all succeed, or the SELECT, the INSERT or the
\* commit raises
FailModes == {"none", "select", "insert", "commit"}

\* outcome of one send through the messaging channel
SendOutcomes == {"ok", "transient", "blocked"}

Range(s) == {s[k] : k \in 1..Len(s)}

Take(s, n) == IF Len(s) <= n THEN s ELSE SubSeq(s, 1, n)

Max(S) == CHOOSE x \in S : \A y \in S : y <= x

Min(S) == CHOOSE x \in S : \A y \in S : x <= y

\* rows of a table with an INTEGER PRIMARY KEY come back in key order
RECURSIVE SortedSeq(_)
SortedSeq(S) == IF S = {} THEN <<>> ELSE <<Min(S)>> \o SortedSeq(S \ {Min(S)})

\* ------------------------------------------------------ table vacancies
\* a table is the sequence of its rows in rowid order

\* SELECT 1 FROM vacancies WHERE link = ?
LinkStored(rows, link) == \E k \in 1..Len(rows) : rows[k].link = link

\* id INTEGER PRIMARY KEY without AUTOINCREMENT: largest rowid plus one
NextId(rows) == IF rows = <<>> THEN 1 ELSE Max({rows[k].id : k \in 1..Len(rows)}) + 1

NewRow(rows, v) == [id |-> NextId(rows), link |-> v.link, title |-> v.title]

\* INSERT INTO vacancies against the schema of init_db: link TEXT UNIQUE
\* makes the statement raise IntegrityError when the link is present
InsertVacancyNoUnique(rows, v) == [ok |-> TRUE, rows |-> Append(rows, NewRow(rows, v))]

InsertVacancy(rows, v) ==
    IF \E k \in 1..Len(rows) : rows[k].link = v.link
    THEN [ok |-> FALSE, rows |-> rows]
    ELSE [ok |-> TRUE, rows |-> Append(rows, NewRow(rows, v))]

LinkOf(rows, vid) ==
    IF \E k \in 1..Len(rows) : rows[k].id = vid
    THEN (CHOOSE row \in Range(rows) : row.id = vid).link
    ELSE 0

IdOf(rows, link) ==
    IF LinkStored(rows, link)
    THEN (CHOOSE row \in Range(rows) : row.link = link).id
    ELSE 0

\* --------------------------------------------- table sent_notifications
\* the table is the bag of its (vacancy_id, user_id) rows: no statement of
\* the programs depends on their order or on their id and sent_at columns
Rec(vid, u) == [vacancy_id |-> vid, user_id |-> u]

HasRecord(recs, vid, u) == BagIn(Rec(vid, u), recs)

\* INSERT OR IGNORE INTO sent_notifications against UNIQUE(vacancy_id, user_id)
InsertAlways(recs, vid, u) == recs (+) SetToBag({Rec(vid, u)})

InsertOrIgnore(recs, vid, u) ==
    IF HasRecord(recs, vid, u) THEN recs
    ELSE recs (+) SetToBag({Rec(vid, u)})

\* mark_as_sent: a store failure is logged and swallowed
mark_as_sent(recs, vid, u, storeOK) ==
    IF storeOK THEN InsertOrIgnore(recs, vid, u) ELSE recs

\* check_and_notify, lines 180-181:
\*     if send_telegram_message(user_id, message): mark_as_sent(vacancy['id'], user_id)
RecordRegardless(recs, vid, u, out, storeOK) == mark_as_sent(recs, vid, u, storeOK)

RecordIfSent(recs, vid, u, out, storeOK) ==
    IF out = "ok" THEN mark_as_sent(recs, vid, u, storeOK) ELSE recs

\* ------------------------------------------------- filter_new_vacancies
\* st = [rows: committed rows, txn: rows inserted but not yet committed on
\*       this connection, new: the list new_vacancies]
FilterItemAppendAll(st, v, f) ==
    IF f = "select" THEN st
    ELSE LET st1 == [st EXCEPT !.new = Append(@, v)]
             ins == InsertVacancy(st.rows \o st.txn, v)
         IN  IF f = "insert" \/ ~ins.ok THEN st1
             ELSE LET st2 == [st1 EXCEPT !.txn = Append(@, ins.rows[Len(ins.rows)])]
                  IN  IF f = "commit" THEN st2
                      ELSE [st2 EXCEPT !.rows = @ \o st2.txn, !.txn = <<>>]

FilterItem(st, v, f) ==
    IF f = "select" THEN st                                \* SELECT raises
    ELSE IF LinkStored(st.rows \o st.txn, v.link) THEN st  \* fetchone() found a row
    ELSE LET st1 == [st EXCEPT !.new = Append(@, v)]       \* append precedes INSERT
             ins == InsertVacancy(st.rows \o st.txn, v)
         IN  IF f = "insert" \/ ~ins.ok THEN st1           \* INSERT raises
             ELSE LET st2 == [st1 EXCEPT !.txn = Append(@, ins.rows[Len(ins.rows)])]
                  IN  IF f = "commit" THEN st2             \* commit raises, txn stays open
                      ELSE [st2 EXCEPT !.rows = @ \o st2.txn, !.txn = <<>>]

RECURSIVE FilterLoop(_, _, _, _)
FilterLoop(st, vs, fs, k) ==
    IF k > Len(vs) THEN st
    ELSE FilterLoop(FilterItem(st, vs[k], fs[k]), vs, fs, k + 1)

\* the whole call: empty input returns at once, a failed get_db_connection
\* is caught by the outer except, conn.close() drops the open transaction
filter_new_vacanciesUpsert(rows, vs, fs, connOK) ==
    IF vs = <<>> \/ ~connOK THEN [rows |-> rows, new |-> <<>>]
    ELSE LET st == FilterLoop([rows |-> rows, txn |-> <<>>, new |-> <<>>], vs, fs, 1)
             last(row) == Max({k \in 1..Len(vs) : vs[k].link = row.link})
             upd(row) == IF \E k \in 1..Len(vs) : vs[k].link = row.link
                         THEN [row EXCEPT !.title = vs[last(row)].title]
                         ELSE row
         IN  [rows |-> [k \in 1..Len(st.rows) |-> upd(st.rows[k])], new |-> st.new]

filter_new_vacancies(rows, vs, fs, connOK) ==
    IF vs = <<>> \/ ~connOK THEN [rows |-> rows, new |-> <<>>]
    ELSE LET st == FilterLoop([rows |-> rows, txn |-> <<>>, new |-> <<>>], vs, fs, 1)
         IN  [rows |-> st.rows, new |-> st.new]

\* ---------------------------------------------------- get_new_vacancies
\* vacancies LEFT JOIN sent_notifications WHERE s.vacancy_id IS NULL LIMIT ?
RECURSIVE SelectSeq2(_, _, _)
SelectSeq2(rows, recs, k) ==
    IF k > Len(rows) THEN <<>>
    ELSE (IF \E rec \in BagToSet(recs) : rec.vacancy_id = rows[k].id
          THEN <<>> ELSE <<rows[k]>>) \o SelectSeq2(rows, recs, k + 1)

get_new_vacanciesNoJoin(rows, recs, limit, storeOK) ==
    IF storeOK THEN Take(rows, limit) ELSE <<>>

get_new_vacancies(rows, recs, limit, storeOK) ==
    IF storeOK THEN Take(SelectSeq2(rows, recs, 1), limit) ELSE <<>>

\* get_active_users: SELECT user_id FROM users, [] on a store failure
get_active_usersKnown(us, storeOK) == IF storeOK THEN SortedSeq(Users) ELSE <<>>

get_active_users(us, storeOK) == IF storeOK THEN SortedSeq(us) ELSE <<>>

\* ------------------------------------- get_hh_vacancies, parse_vacancies
\* an alternate_url string: url 2b-1 is the address of posting b as the site
\* prints it, url 2b the same address followed by a query-parameter suffix
Urls == 1..MaxUrls

\* an item of the listing source; dated: published_at has the expected
\* format.  name stands for every attribute copied besides the link
Item == [url : Urls, name : {1}, dated : BOOLEAN]

\* the answer for one region: a transport or non-2xx failure, or the items
Responses ==
    {[ok |-> FALSE, items |-> <<>>]}
        \cup {[ok |-> TRUE, items |-> its] : its \in SeqsUpTo(Item, MaxItems)}

\* one iteration of the for loop of get_hh_vacancies: the items are added,
\* an exception is logged and the loop goes on.  The region label put on
\* each item is carried by no later decision and is left out
FetchRegionOrAbort(all, resp) == IF resp.ok THEN all \o resp.items ELSE <<>>

FetchRegion(all, resp) == IF resp.ok THEN all \o resp.items ELSE all

\* parse_vacancies: link is alternate_url as received, title is name; an item
\* whose published_at does not parse raises and is dropped
RECURSIVE ParseFrom(_, _)
ParseFrom(items, k) ==
    IF k > Len(items) THEN <<>>
    ELSE (IF items[k].dated
          THEN <<[link |-> items[k].url, title |-> items[k].name]>>
          ELSE <<>>) \o ParseFrom(items, k + 1)

parse_vacancies(items) == ParseFrom(items, 1)

\* ------------------------------- parse_vacancies, field by field
\* a raw item of the listing source as parse_vacancies reads it.  A key can
\* be missing ("absent"), carry JSON null ("null") or a value
MaxPay == 1    \* largest salary bound the source can return

\* salary_data.get("from") / .get("to"): None, or a number
None == -1

PayVals == {None} \cup (0..MaxPay)

\* item.get("salary"): given is FALSE for a missing key or null
SalaryVals == [given : BOOLEAN, from : PayVals, to : PayVals]

\* item.get("schedule", {}): missing, null, {}, a dict without "id", or a
\* dict whose "id" is the code named
ScheduleVals == {"absent", "null", "empty", "noId", "remote", "flexible", "fullDay"}

\* Python truth of a number or None, and of the schedule value
TruthyPay(x) == x # None /\ x # 0

TruthySchedule(sc) == sc \notin {"absent", "null", "empty"}

\* format_salary: the form, and the bounds it prints.  The strings are
\* "Не указана", "от X CUR", "до X CUR" and "X–Y CUR"
format_salary(sd) ==
    IF ~sd.given \/ (sd.from = None /\ sd.to = None)          \* not salary_data
    THEN [form |-> "unspecified", from |-> None, to |-> None]
    ELSE IF TruthyPay(sd.from) /\ TruthyPay(sd.to)
    THEN [form |-> "range", from |-> sd.from, to |-> sd.to]
    ELSE IF TruthyPay(sd.from) THEN [form |-> "from", from |-> sd.from, to |-> None]
    ELSE IF TruthyPay(sd.to) THEN [form |-> "upTo", from |-> None, to |-> sd.to]
    ELSE [form |-> "unspecified", from |-> None, to |-> None]

\* work_format: "Не указан", "Удаленная", "Гибкий график", "Офис"
WorkFormatOffice(sc) ==
    IF sc = "remote" THEN "remote"
    ELSE IF sc = "flexible" THEN "flexible"
    ELSE "office"

WorkFormat(sc) ==
    IF ~TruthySchedule(sc) THEN "unspecified"
    ELSE IF sc = "remote" THEN "remote"
    ELSE IF sc = "flexible" THEN "flexible"
    ELSE "office"

RawItem ==
    [name : {"absent", "n1"}, alternate_url : {"absent", "u1", "u2"},
     employer : {"absent", "null", "e1"}, experience : {"absent", "null", "x1"},
     schedule : ScheduleVals, salary : SalaryVals,
     published_at : {"absent", "malformed", "iso"}]

\* the body of the try block raises: strptime on None or on a string of
\* another format, .get on the None of a null employer or experience
Raises(item) ==
    \/ item.published_at # "iso"
    \/ item.employer = "null"
    \/ item.experience = "null"

\* the dict appended to vacancies
ParseItem(item) ==
    [title        |-> IF item.name = "absent" THEN "" ELSE item.name,
     link         |-> IF item.alternate_url = "absent" THEN "" ELSE item.alternate_url,
     company      |-> IF item.employer = "absent" THEN "" ELSE item.employer,
     salary       |-> format_salary(item.salary),
     experience   |-> IF item.experience = "absent" THEN "unspecified" ELSE item.experience,
     work_format  |-> WorkFormat(item.schedule),
     published_at |-> "dmy"]

\* the for loop: an item that raises is logged and skipped
RECURSIVE ParseItemsOrStop(_, _)
ParseItemsOrStop(items, k) ==
    IF k > Len(items) \/ Raises(items[k]) THEN <<>>
    ELSE <<ParseItem(items[k])>> \o ParseItemsOrStop(items, k + 1)

RECURSIVE ParseItems(_, _)
ParseItems(items, k) ==
    IF k > Len(items) THEN <<>>
    ELSE (IF Raises(items[k]) THEN <<>> ELSE <<ParseItem(items[k])>>)
             \o ParseItems(items, k + 1)

\* ------------------------------------------------------------ the state
VARIABLES
    vacancies,      \* table vacancies of vacancies.db
    users,          \* table users of users.db (set of user_id)
    sent,           \* table sent_notifications of vacancies.db
    mpc,            \* main.py: position of async_job
    new_vacancies,  \* main.py: result of filter_new_vacancies
    musers,         \* main.py: users fetched by send_telegram_alert
    mi,             \* main.py: index of the current user (outer loop)
    mj,             \* main.py: index of the current vacancy (inner loop)
    npc,            \* notifier.py: position of check_and_notify
    nvac,           \* notifier.py: rows returned by get_new_vacancies
    nusers,         \* notifier.py: list returned by get_active_users
    ni,             \* notifier.py: index of the current vacancy (outer loop)
    nj,             \* notifier.py: index of the current user (inner loop)
    ev,             \* what the last step did on the channel or asked the store
    got,            \* history: (link, user) pairs the channel has accepted
    raw,            \* history: the batch given to the last filter_new_vacancies
    fails,          \* history: the store outcome each of its records met
    failedNow,      \* history: pairs whose send failed transiently in this
                    \*          check_and_notify cycle, recipient active since
    owed,           \* history: the same for the previous cycle
    calls,          \* filter_new_vacancies calls in progress, one per caller
    idem,           \* the two successive full cycles on one raw input
    region,         \* main.py: position of get_hh_vacancies in REGIONS
    all_vacancies,  \* main.py: the items get_hh_vacancies has collected
    responses,      \* history: what the listing source answered per region
    conns,          \* get_db_connection calls in progress, one per program
    sched,          \* main.py: the scheduler loop of run_parser
    cycles,         \* history: cycles started and not yet returned, per program
    tried           \* history: (link, user) pairs send_telegram_alert has
                    \*          attempted in this cycle

vars == <<vacancies, users, sent, mpc, new_vacancies, musers, mi, mj,
          npc, nvac, nusers, ni, nj, ev, got, raw, fails, failedNow, owed,
          calls, idem, region, all_vacancies, responses, conns, sched, cycles,
          tried>>

dbVars    == <<vacancies, users, sent>>
mainVars  == <<mpc, new_vacancies, musers, mi, mj>>
notiVars  == <<npc, nvac, nusers, ni, nj>>
callVars  == <<raw, fails>>
retryVars == <<failedNow, owed>>
fetchVars == <<region, all_vacancies, responses>>
restVars  == <<conns, sched, cycles>>

Progs == {"main", "notifier", "bot"}

\* no get_db_connection call in progress
NoConn == [status |-> "idle", db |-> "none", attempts |-> 0, slept |-> <<>>]

\* run_parser before the first tick
NoSched == [pos |-> "loop", due |-> FALSE]

NoCycles == [p \in {"main", "notifier"} |-> 0]

Callers == 1..2

\* a caller of filter_new_vacancies: outside the call ("out"), at the top of
\* the for loop ("loop") or between the append and the INSERT ("insert");
\* k counts the records taken, cur is the record in hand, new the list
NoCall == [phase |-> "out", k |-> 0, cur |-> [link |-> 0, title |-> 0], new |-> <<>>]

NoIdem == [n |-> 0, stage |-> "off", batch |-> <<>>, rows1 |-> <<>>,
           sent1 |-> EmptyBag, fit |-> TRUE]

NoEv == [kind |-> "none", by |-> "none", link |-> 0, r |-> 0, out |-> "none"]

SendEv(by, link, r, out) ==
    [kind |-> "send", by |-> by, link |-> link, r |-> r, out |-> out]

QueryEv(ok) ==
    [NoEv EXCEPT !.kind = "query", !.by = "notifier", !.out = IF ok THEN "ok" ELSE "error"]

Init ==
    /\ vacancies = <<>>
    /\ users = {}
    /\ sent = EmptyBag
    /\ mpc = "idle" /\ new_vacancies = <<>> /\ musers = <<>> /\ mi = 1 /\ mj = 1
    /\ npc = "idle" /\ nvac = <<>> /\ nusers = <<>> /\ ni = 1 /\ nj = 1
    /\ ev = NoEv
    /\ got = {}
    /\ raw = <<>> /\ fails = <<>>
    /\ failedNow = {} /\ owed = {}
    /\ calls = [c \in Callers |-> NoCall]
    /\ idem = NoIdem
    /\ region = 0 /\ all_vacancies = <<>> /\ responses = <<>>
    /\ conns = [p \in Progs |-> NoConn]
    /\ sched = NoSched
    /\ cycles = NoCycles
    /\ tried = {}

\* ----------------------------------------------------------- bot.py
\* /start: insert the user when absent
Start(u) ==
    /\ users' = users \cup {u}
    /\ ev' = NoEv
    /\ UNCHANGED <<vacancies, sent, mainVars, notiVars>>

\* /stop: delete the user
Stop(u) ==
    /\ u \in users
    /\ users' = users \ {u}
    /\ ev' = NoEv
    /\ UNCHANGED <<vacancies, sent, mainVars, notiVars>>

\* ----------------------------------------------------------- main.py
\* async_job up to the first send: parse_vacancies gives the batch,
\* filter_new_vacancies stores it, send_telegram_alert fetches the users
JobRun(batch, fs, connOK, usersOK) ==
    /\ mpc = "idle"
    /\ Len(fs) = Len(batch)
    /\ LET res == filter_new_vacancies(vacancies, batch, fs, connOK)
           us  == IF usersOK THEN SortedSeq(users) ELSE <<>>
       IN  /\ vacancies' = res.rows
           /\ new_vacancies' = res.new
           /\ mi' = 1 /\ mj' = 1
           /\ IF res.new # <<>> /\ us # <<>>
              THEN mpc' = "alert" /\ musers' = us
              ELSE mpc' = "done" /\ musers' = <<>>
    /\ ev' = NoEv
    /\ UNCHANGED <<users, sent, notiVars>>

\* one iteration of the inner loop of send_telegram_alert: a send, and on
\* "Forbidden: bot was blocked by the user" the DELETE of the user
AlertSend(out, delOK) ==
    /\ mpc = "alert"
    /\ LET u == musers[mi]
           v == new_vacancies[mj]
       IN  /\ ev' = SendEv("main", v.link, u, out)
           /\ users' = IF out = "blocked" /\ delOK THEN users \ {u} ELSE users
    /\ IF mj < Len(new_vacancies) THEN mj' = mj + 1 /\ UNCHANGED <<mi, mpc>>
       ELSE IF mi < Len(musers) THEN mj' = 1 /\ mi' = mi + 1 /\ UNCHANGED mpc
       ELSE mpc' = "done" /\ UNCHANGED <<mi, mj>>
    /\ UNCHANGED <<vacancies, sent, new_vacancies, musers, notiVars>>

\* async_job has returned; run_parser waits for the next tick
JobSleep ==
    /\ mpc = "done"
    /\ mpc' = "idle"
    /\ new_vacancies' = <<>> /\ musers' = <<>> /\ mi' = 1 /\ mj' = 1
    /\ ev' = NoEv
    /\ UNCHANGED <<dbVars, notiVars>>

\* ----------------------------------------------------------- notifier.py
\* check_and_notify up to the first send
CheckStart(vacOK, usersOK) ==
    /\ npc = "idle"
    /\ LET nv == get_new_vacancies(vacancies, sent, QueryLimit, vacOK)
           us == get_active_users(users, usersOK)
       IN  /\ nvac' = nv
           /\ ni' = 1 /\ nj' = 1
           /\ IF nv # <<>> /\ us # <<>>
              THEN npc' = "send" /\ nusers' = us
              ELSE npc' = "done" /\ nusers' = <<>>
    /\ ev' = QueryEv(vacOK)
    /\ UNCHANGED <<dbVars, mainVars>>

\* one iteration of the inner loop of check_and_notify:
\* if send_telegram_message(...): mark_as_sent(...)
CheckSend(out, markOK) ==
    /\ npc = "send"
    /\ LET row == nvac[ni]
           u   == nusers[nj]
       IN  /\ ev' = SendEv("notifier", row.link, u, out)
           /\ sent' = RecordIfSent(sent, row.id, u, out, markOK)
    /\ IF nj < Len(nusers) THEN nj' = nj + 1 /\ UNCHANGED <<ni, npc>>
       ELSE IF ni < Len(nvac) THEN nj' = 1 /\ ni' = ni + 1 /\ UNCHANGED npc
       ELSE npc' = "done" /\ UNCHANGED <<ni, nj>>
    /\ UNCHANGED <<vacancies, users, mainVars, nvac, nusers>>

\* check_and_notify has returned; main() sleeps 300 seconds
CheckSleep ==
    /\ npc = "done"
    /\ npc' = "idle"
    /\ nvac' = <<>> /\ nusers' = <<>> /\ ni' = 1 /\ nj' = 1
    /\ ev' = NoEv
    /\ UNCHANGED <<dbVars, mainVars>>

FailSeqs(n) == {fs \in SeqsUpTo(FailModes, MaxBatch) : Len(fs) = n}

\* ------------------------------------------------------------- history
\* the history variables follow the steps through ev

\* got: the pairs of the sends the channel has accepted
TrackGot ==
    got' = IF ev'.kind = "send" /\ ev'.out = "ok"
           THEN got \cup {<<ev'.link, ev'.r>>} ELSE got

StillActive(pairs) == {pr \in pairs : pr[2] \in users'}

\* failedNow and owed: a transient failure of a send of check_and_notify to
\* an active recipient is noted, a recipient who leaves the users table is
\* dropped, the sleep between two cycles turns failedNow into owed, and a
\* cycle whose store queries fail owes nothing
TrackRetries ==
    LET slept     == npc = "done" /\ npc' = "idle"
        failed    == ev'.kind = "send" /\ ev'.by = "notifier" /\ ev'.out = "transient"
                     /\ ev'.r \in users
        storeDown == ev'.kind = "query"
                     /\ (ev'.out = "error" \/ (nvac' # <<>> /\ users # {} /\ nusers' = <<>>))
    IN  /\ failedNow' = IF slept THEN {}
                        ELSE StillActive(failedNow \cup
                                 (IF failed THEN {<<ev'.link, ev'.r>>} ELSE {}))
        /\ owed' = IF slept THEN failedNow
                   ELSE IF storeDown THEN {}
                   ELSE StillActive(owed)

\* ------------------------------------------ the three programs together
Sends == TrackGot /\ UNCHANGED <<raw, fails, failedNow, owed, calls, idem, fetchVars, tried, restVars>>

Next ==
    \/ \E u \in Users : Start(u) /\ Sends
    \/ \E u \in Users : Stop(u) /\ Sends
    \/ \E batch \in SysBatches, connOK \in BOOLEAN, usersOK \in BOOLEAN :
         \E fs \in FailSeqs(Len(batch)) : JobRun(batch, fs, connOK, usersOK) /\ Sends
    \/ \E out \in SendOutcomes, delOK \in BOOLEAN : AlertSend(out, delOK) /\ Sends
    \/ JobSleep /\ Sends
    \/ \E vacOK \in BOOLEAN, usersOK \in BOOLEAN : CheckStart(vacOK, usersOK) /\ Sends
    \/ \E out \in SendOutcomes, markOK \in BOOLEAN : CheckSend(out, markOK) /\ Sends
    \/ CheckSleep /\ Sends

Spec == Init /\ [][Next]_vars

\* ------------------------------------- notifier.py and bot.py by themselves
\* main.py has stored some postings earlier and is between two ticks
StoredTables(n) ==
    {[k \in 1..m |-> [id |-> k, link |-> k, title |-> 1]] : m \in 0..n}

InitStored(n) ==
    /\ vacancies \in StoredTables(n)
    /\ users \in SUBSET Users
    /\ sent = EmptyBag
    /\ mpc = "idle" /\ new_vacancies = <<>> /\ musers = <<>> /\ mi = 1 /\ mj = 1
    /\ npc = "idle" /\ nvac = <<>> /\ nusers = <<>> /\ ni = 1 /\ nj = 1
    /\ ev = NoEv
    /\ got = {}
    /\ raw = <<>> /\ fails = <<>>
    /\ failedNow = {} /\ owed = {}
    /\ calls = [c \in Callers |-> NoCall]
    /\ idem = NoIdem
    /\ region = 0 /\ all_vacancies = <<>> /\ responses = <<>>
    /\ conns = [p \in Progs |-> NoConn]
    /\ sched = NoSched
    /\ cycles = NoCycles
    /\ tried = {}

InitNotifier == InitStored(MaxLinks)

Tracked == TrackGot /\ TrackRetries /\ UNCHANGED <<raw, fails, calls, idem, fetchVars, tried, restVars>>

NextNotifier ==
    \/ \E u \in Users : Start(u) /\ Tracked
    \/ \E u \in Users : Stop(u) /\ Tracked
    \/ \E vacOK \in BOOLEAN, usersOK \in BOOLEAN : CheckStart(vacOK, usersOK) /\ Tracked
    \/ \E out \in SendOutcomes, markOK \in BOOLEAN : CheckSend(out, markOK) /\ Tracked
    \/ CheckSleep /\ Tracked

SpecNotifier == InitNotifier /\ [][NextNotifier]_vars

\* ------------------------------- mark_as_sent called by any other caller too
MarkCall(vid, u, storeOK) ==
    /\ sent' = mark_as_sent(sent, vid, u, storeOK)
    /\ ev' = [NoEv EXCEPT !.kind = "mark", !.link = vid, !.r = u,
                          !.out = IF storeOK THEN "ok" ELSE "error"]
    /\ UNCHANGED <<vacancies, users, mainVars, notiVars>>

NoTrack == UNCHANGED <<got, raw, fails, failedNow, owed, calls, idem, fetchVars, tried, restVars>>

InitMark == InitStored(SysLinks)

NextMark ==
    \/ \E u \in Users : Start(u) /\ NoTrack
    \/ \E u \in Users : Stop(u) /\ NoTrack
    \/ \E vacOK \in BOOLEAN, usersOK \in BOOLEAN : CheckStart(vacOK, usersOK) /\ NoTrack
    \/ \E out \in SendOutcomes, markOK \in BOOLEAN : CheckSend(out, markOK) /\ NoTrack
    \/ CheckSleep /\ NoTrack
    \/ \E vid \in 1..SysLinks, u \in Users, storeOK \in BOOLEAN :
         MarkCall(vid, u, storeOK) /\ NoTrack

SpecMark == InitMark /\ [][NextMark]_vars

\* --------------------------------- filter_new_vacancies as a function
\* one whole call on an arbitrary batch, the store as earlier calls left it
Persist(batch, fs, connOK) ==
    /\ ev.kind # "filter"
    /\ Len(fs) = Len(batch)
    /\ LET res == filter_new_vacancies(vacancies, batch, fs, connOK)
       IN  /\ vacancies' = res.rows
           /\ new_vacancies' = res.new
    /\ raw' = batch
    /\ fails' = fs
    /\ ev' = [NoEv EXCEPT !.kind = "filter", !.by = "main",
                          !.out = IF connOK THEN "ok" ELSE "error"]
    /\ UNCHANGED <<users, sent, mpc, musers, mi, mj, notiVars, got, retryVars, calls, idem, fetchVars, tried, restVars>>

\* the caller is done with the returned list
PersistReturn ==
    /\ ev.kind = "filter"
    /\ ev' = NoEv
    /\ raw' = <<>> /\ fails' = <<>> /\ new_vacancies' = <<>>
    /\ UNCHANGED <<dbVars, mpc, musers, mi, mj, notiVars, got, retryVars, calls, idem, fetchVars, tried, restVars>>

NextFilter ==
    \/ \E batch \in Batches, connOK \in BOOLEAN :
         \E fs \in FailSeqs(Len(batch)) : Persist(batch, fs, connOK)
    \/ PersistReturn

SpecFilter == Init /\ [][NextFilter]_vars

\* ------------------ filter_new_vacancies calls interleaved on the store
\* two callers, each a connection of its own; a call takes its records one
\* by one, and the steps of the two calls interleave at the store operations
CallBatchItems == [link : 1..SysLinks, title : Titles]

otherVars == <<users, sent, mainVars, notiVars, got, raw, fails, retryVars, idem, fetchVars, tried, restVars>>

\* the call begins: get_db_connection, conn.cursor()
PCall(c) ==
    /\ calls[c].phase = "out"
    /\ calls' = [calls EXCEPT ![c] = [NoCall EXCEPT !.phase = "loop"]]
    /\ ev' = NoEv
    /\ UNCHANGED <<vacancies, otherVars>>

\* the next record of the batch: the SELECT, and the append when no row came
PSelect(c, v, storeOK) ==
    /\ calls[c].phase = "loop"
    /\ calls[c].k < MaxBatch
    /\ calls' = [calls EXCEPT ![c] =
                    IF ~storeOK \/ LinkStored(vacancies, v.link)
                    THEN [@ EXCEPT !.k = @ + 1]
                    ELSE [@ EXCEPT !.k = @ + 1, !.cur = v, !.new = Append(@, v),
                                   !.phase = "insert"]]
    /\ ev' = NoEv
    /\ UNCHANGED <<vacancies, otherVars>>

\* the INSERT and its commit; the row becomes visible at the commit
PInsert(c, storeOK) ==
    /\ calls[c].phase = "insert"
    /\ LET ins == InsertVacancy(vacancies, calls[c].cur)
       IN  /\ vacancies' = IF storeOK THEN ins.rows ELSE vacancies
           /\ ev' = [NoEv EXCEPT !.kind = "insert", !.by = "main",
                                 !.link = calls[c].cur.link,
                                 !.out = IF ~storeOK THEN "error"
                                         ELSE IF ins.ok THEN "ok" ELSE "unique"]
    /\ calls' = [calls EXCEPT ![c] = [@ EXCEPT !.phase = "loop", !.cur = NoCall.cur]]
    /\ UNCHANGED otherVars

\* the batch is exhausted: conn.close(), return new_vacancies
PReturn(c) ==
    /\ calls[c].phase = "loop"
    /\ calls' = [calls EXCEPT ![c] = [@ EXCEPT !.phase = "out", !.k = 0]]
    /\ ev' = NoEv
    /\ UNCHANGED <<vacancies, otherVars>>

NextPersist ==
    \/ \E c \in Callers : PCall(c)
    \/ \E c \in Callers, v \in CallBatchItems, storeOK \in BOOLEAN : PSelect(c, v, storeOK)
    \/ \E c \in Callers, storeOK \in BOOLEAN : PInsert(c, storeOK)
    \/ \E c \in Callers : PReturn(c)

SpecPersist == Init /\ [][NextPersist]_vars

\* ------------------------------- two full cycles on the same raw input
\* async_job and then check_and_notify, twice, on one batch, with the same
\* recipients, every send and every store operation succeeding
NoFails(n) == [k \in 1..n |-> "none"]

InitIdem ==
    /\ vacancies \in StoredTables(1)
    /\ users \in SUBSET Users
    /\ sent = EmptyBag
    /\ mpc = "idle" /\ new_vacancies = <<>> /\ musers = <<>> /\ mi = 1 /\ mj = 1
    /\ npc = "idle" /\ nvac = <<>> /\ nusers = <<>> /\ ni = 1 /\ nj = 1
    /\ ev = NoEv
    /\ got = {}
    /\ raw = <<>> /\ fails = <<>>
    /\ failedNow = {} /\ owed = {}
    /\ calls = [c \in Callers |-> NoCall]
    /\ \E batch \in Batches : idem = [NoIdem EXCEPT !.stage = "job", !.batch = batch]
    /\ region = 0 /\ all_vacancies = <<>> /\ responses = <<>>
    /\ conns = [p \in Progs |-> NoConn]
    /\ sched = NoSched
    /\ cycles = NoCycles
    /\ tried = {}

idemRest == <<got, raw, fails, failedNow, owed, calls, fetchVars, tried, restVars>>

IdemJobRun ==
    /\ idem.stage = "job" /\ idem.n < 2
    /\ JobRun(idem.batch, NoFails(Len(idem.batch)), TRUE, TRUE)
    /\ UNCHANGED <<idem, idemRest>>

IdemAlertSend == AlertSend("ok", TRUE) /\ UNCHANGED <<idem, idemRest>>

IdemJobSleep ==
    /\ JobSleep
    /\ idem' = [idem EXCEPT !.stage = "check"]
    /\ UNCHANGED idemRest

\* fit: the first check_and_notify had a recipient and found more postings
\* pending than its limit, or not
IdemCheckStart ==
    /\ idem.stage = "check"
    /\ CheckStart(TRUE, TRUE)
    /\ idem' = IF idem.n = 0
               THEN [idem EXCEPT !.fit = users = {} \/
                                         Len(SelectSeq2(vacancies, sent, 1)) <= QueryLimit]
               ELSE idem
    /\ UNCHANGED idemRest

IdemCheckSend == CheckSend("ok", TRUE) /\ UNCHANGED <<idem, idemRest>>

IdemCheckSleep ==
    /\ CheckSleep
    /\ idem' = IF idem.n = 0
               THEN [idem EXCEPT !.n = 1, !.stage = "job",
                                 !.rows1 = vacancies, !.sent1 = sent]
               ELSE [idem EXCEPT !.n = @ + 1, !.stage = "job"]
    /\ UNCHANGED idemRest

NextIdem ==
    \/ IdemJobRun
    \/ IdemAlertSend
    \/ IdemJobSleep
    \/ IdemCheckStart
    \/ IdemCheckSend
    \/ IdemCheckSleep

SpecIdem == InitIdem /\ [][NextIdem]_vars

\* ------------------------------- one cycle of main.py from the fetch on
\* get_hh_vacancies region by region, then parse_vacancies,
\* filter_new_vacancies and send_telegram_alert on an empty vacancies table,
\* the store answering; check_and_notify runs once async_job has returned
InitFetch ==
    /\ vacancies = <<>>
    /\ users \in SUBSET Users
    /\ sent = EmptyBag
    /\ mpc = "idle" /\ new_vacancies = <<>> /\ musers = <<>> /\ mi = 1 /\ mj = 1
    /\ npc = "idle" /\ nvac = <<>> /\ nusers = <<>> /\ ni = 1 /\ nj = 1
    /\ ev = NoEv
    /\ got = {}
    /\ raw = <<>> /\ fails = <<>>
    /\ failedNow = {} /\ owed = {}
    /\ calls = [c \in Callers |-> NoCall]
    /\ idem = NoIdem
    /\ region = 1 /\ all_vacancies = <<>> /\ responses = <<>>
    /\ conns = [p \in Progs |-> NoConn]
    /\ sched = NoSched
    /\ cycles = NoCycles
    /\ tried = {}

TrackTried ==
    tried' = IF ev'.kind = "send" /\ ev'.by = "main"
             THEN tried \cup {<<ev'.link, ev'.r>>} ELSE tried

fetchRest == <<raw, fails, failedNow, owed, calls, idem, restVars>>

\* requests.get for the next region and what follows it in the loop body
HHRegion(resp) ==
    /\ region \in 1..NumRegions
    /\ all_vacancies' = FetchRegion(all_vacancies, resp)
    /\ responses' = Append(responses, resp)
    /\ region' = region + 1
    /\ ev' = NoEv
    /\ UNCHANGED <<dbVars, mainVars, notiVars, got, tried, fetchRest>>

\* get_hh_vacancies has returned all_vacancies: the rest of async_job up to
\* the first send
FetchJobRun ==
    /\ region = NumRegions + 1
    /\ LET batch == parse_vacancies(all_vacancies)
       IN  JobRun(batch, NoFails(Len(batch)), TRUE, TRUE)
    /\ region' = 0
    /\ UNCHANGED <<all_vacancies, responses, got, tried, fetchRest>>

FetchAlertSend(out, delOK) ==
    /\ AlertSend(out, delOK)
    /\ TrackGot /\ TrackTried
    /\ UNCHANGED <<fetchVars, fetchRest>>

FetchJobSleep ==
    /\ JobSleep
    /\ UNCHANGED <<fetchVars, got, tried, fetchRest>>

FetchCheckStart ==
    /\ region = 0 /\ mpc = "idle"
    /\ CheckStart(TRUE, TRUE)
    /\ UNCHANGED <<fetchVars, got, tried, fetchRest>>

FetchCheckSend(out) ==
    /\ CheckSend(out, TRUE)
    /\ TrackGot
    /\ UNCHANGED <<fetchVars, tried, fetchRest>>

FetchCheckSleep ==
    /\ CheckSleep
    /\ UNCHANGED <<fetchVars, got, tried, fetchRest>>

NextFetch ==
    \/ \E resp \in Responses : HHRegion(resp)
    \/ FetchJobRun
    \/ \E out \in SendOutcomes, delOK \in BOOLEAN : FetchAlertSend(out, delOK)
    \/ FetchJobSleep
    \/ FetchCheckStart
    \/ \E out \in SendOutcomes : FetchCheckSend(out)
    \/ FetchCheckSleep

SpecFetch == InitFetch /\ [][NextFetch]_vars

\* ---------------------------------------------------- get_db_connection
\* while attempts < 3
MaxAttempts == 3

DbNames == {"vacancies.db", "users.db"}

\* what one pass through the try block meets: the handle, an
\* sqlite3.OperationalError, or another sqlite3.Error
AttemptOutcomes == {"ok", "operational", "other"}

\* the except clause: sqlite3.Error in notifier.py, sqlite3.OperationalError
\* in main.py and bot.py
Caught(p, outcome) ==
    IF p = "notifier" THEN outcome \in {"operational", "other"}
    ELSE outcome = "operational"

\* the sleep of the except clause: 2 ** attempts in notifier.py, 1 in
\* main.py and bot.py
Delay(p, attempts) == IF p = "notifier" THEN 2 ^ attempts ELSE 1

\* a function of program p calls get_db_connection(db)
ConnCall(p, db) ==
    /\ conns[p].status = "idle"
    /\ conns' = [conns EXCEPT ![p] = [NoConn EXCEPT !.status = "trying", !.db = db]]

\* one pass through the while loop: return conn, or log, sleep and count,
\* leaving the loop for the raise once attempts reaches 3; an exception the
\* except clause does not name leaves the function at once
Attempt(p, c, outcome) ==
    IF outcome = "ok" THEN [c EXCEPT !.status = "open"]
    ELSE IF Caught(p, outcome)
    THEN [c EXCEPT !.slept = Append(@, Delay(p, c.attempts)),
                   !.attempts = @ + 1,
                   !.status = IF c.attempts + 1 < MaxAttempts THEN "trying" ELSE "raised"]
    ELSE [c EXCEPT !.status = "raised"]

ConnAttempt(p, outcome) ==
    /\ conns[p].status = "trying"
    /\ conns' = [conns EXCEPT ![p] = Attempt(p, @, outcome)]

\* the caller is done with the handle, or has dealt with the exception
ConnClose(p) ==
    /\ conns[p].status \in {"open", "raised"}
    /\ conns' = [conns EXCEPT ![p] = NoConn]

connRest == <<dbVars, mainVars, notiVars, ev, got, raw, fails, retryVars, calls,
              idem, fetchVars, tried, sched, cycles>>

\* the three programs acquiring connections, each at its own pace
NextConn ==
    \/ \E p \in Progs, db \in DbNames : ConnCall(p, db) /\ UNCHANGED connRest
    \/ \E p \in Progs, outcome \in AttemptOutcomes :
         ConnAttempt(p, outcome) /\ UNCHANGED connRest
    \/ \E p \in Progs : ConnClose(p) /\ UNCHANGED connRest

SpecConn == Init /\ [][NextConn]_vars

\* ---------------- check_and_notify with its store acquisitions spelled out
\* get_new_vacancies, get_active_users and mark_as_sent each begin with
\* get_db_connection; with the handle the statement itself succeeds here
acqRest == <<got, raw, fails, retryVars, calls, idem, fetchVars, tried, sched, cycles>>

Acquired == conns["notifier"].status = "open"

Settled == conns["notifier"].status \in {"open", "raised"}

\* check_and_notify calls get_new_vacancies
AcqCheckCall ==
    /\ npc = "idle"
    /\ ConnCall("notifier", "vacancies.db")
    /\ npc' = "query"
    /\ ev' = NoEv
    /\ UNCHANGED <<dbVars, mainVars, nvac, nusers, ni, nj, acqRest>>

AcqAttempt(outcome) ==
    /\ ConnAttempt("notifier", outcome)
    /\ UNCHANGED <<dbVars, mainVars, notiVars, ev, acqRest>>

\* get_new_vacancies returns: [] after the raise, else the rows; with rows
\* check_and_notify goes on to get_active_users
AcqQuery ==
    /\ npc = "query" /\ Settled
    /\ LET nv == get_new_vacancies(vacancies, sent, QueryLimit, Acquired)
       IN  /\ nvac' = nv
           /\ IF nv = <<>>
              THEN npc' = "done" /\ conns' = [conns EXCEPT !["notifier"] = NoConn]
              ELSE /\ npc' = "users"
                   /\ conns' = [conns EXCEPT !["notifier"] =
                                   [NoConn EXCEPT !.status = "trying", !.db = "users.db"]]
    /\ ev' = QueryEv(Acquired)
    /\ UNCHANGED <<dbVars, mainVars, nusers, ni, nj, acqRest>>

\* get_active_users returns: [] after the raise, else the user ids
AcqUsers ==
    /\ npc = "users" /\ Settled
    /\ LET us == get_active_users(users, Acquired)
       IN  IF us = <<>>
           THEN npc' = "done" /\ nusers' = <<>>
           ELSE npc' = "send" /\ nusers' = us
    /\ ni' = 1 /\ nj' = 1
    /\ conns' = [conns EXCEPT !["notifier"] = NoConn]
    /\ ev' = [NoEv EXCEPT !.kind = "users", !.by = "notifier",
                          !.out = IF Acquired THEN "ok" ELSE "error"]
    /\ UNCHANGED <<dbVars, mainVars, nvac, acqRest>>

\* the loops of check_and_notify move to the next (vacancy, user)
AcqAdvance ==
    IF nj < Len(nusers) THEN nj' = nj + 1 /\ ni' = ni /\ npc' = "send"
    ELSE IF ni < Len(nvac) THEN nj' = 1 /\ ni' = ni + 1 /\ npc' = "send"
    ELSE npc' = "done" /\ ni' = ni /\ nj' = nj

\* send_telegram_message; on True mark_as_sent is called
AcqSend(out) ==
    /\ npc = "send"
    /\ ev' = SendEv("notifier", nvac[ni].link, nusers[nj], out)
    /\ IF out = "ok"
       THEN /\ ConnCall("notifier", "vacancies.db")
            /\ npc' = "mark" /\ UNCHANGED <<ni, nj>>
       ELSE AcqAdvance /\ UNCHANGED conns
    /\ UNCHANGED <<dbVars, mainVars, nvac, nusers, acqRest>>

\* mark_as_sent returns: the INSERT OR IGNORE, or the logged exception
AcqMark ==
    /\ npc = "mark" /\ Settled
    /\ sent' = mark_as_sent(sent, nvac[ni].id, nusers[nj], Acquired)
    /\ ev' = [NoEv EXCEPT !.kind = "mark", !.by = "notifier",
                          !.link = nvac[ni].id, !.r = nusers[nj],
                          !.out = IF Acquired THEN "ok" ELSE "error"]
    /\ conns' = [conns EXCEPT !["notifier"] = NoConn]
    /\ AcqAdvance
    /\ UNCHANGED <<vacancies, users, mainVars, nvac, nusers, acqRest>>

AcqSleep ==
    /\ CheckSleep
    /\ UNCHANGED <<conns, acqRest>>

NextAcquire ==
    \/ AcqCheckCall
    \/ \E outcome \in AttemptOutcomes : AcqAttempt(outcome)
    \/ AcqQuery
    \/ AcqUsers
    \/ \E out \in SendOutcomes : AcqSend(out)
    \/ AcqMark
    \/ AcqSleep

SpecAcquire == InitMark /\ [][NextAcquire]_vars

\* ------------------------------------------- the two scheduling loops
\* run_parser: schedule.every(CHECK_INTERVAL).minutes.do(job), then
\*     while True: schedule.run_pending(); time.sleep(1)
\* run_pending calls a job that is due in the calling thread, and
\* loop.run_until_complete(async_job()) returns when async_job has returned;
\* the job's next run is set when it returns.
\* main() of notifier.py: while True: check_and_notify(); time.sleep(300)
schedRest == <<got, raw, fails, retryVars, calls, idem, fetchVars, tried, conns>>

\* the interval has elapsed, whatever run_parser is doing
Tick ==
    /\ ~sched.due
    /\ sched' = [sched EXCEPT !.due = TRUE]
    /\ ev' = NoEv
    /\ UNCHANGED <<dbVars, mainVars, notiVars, cycles, schedRest>>

\* run_pending is reached only from the while loop of run_parser, never
\* from inside a job
MayStartOnTick(sc) == sc.due

MayStart(sc) == sc.pos = "loop" /\ sc.due

\* run_pending finds the job due and calls it
RunPending ==
    /\ MayStart(sched)
    /\ sched' = [sched EXCEPT !.pos = "job"]
    /\ cycles' = [cycles EXCEPT !["main"] = @ + 1]
    /\ ev' = NoEv
    /\ UNCHANGED <<dbVars, mainVars, notiVars, schedRest>>

SchedJobRun(batch) ==
    /\ sched.pos = "job"
    /\ JobRun(batch, NoFails(Len(batch)), TRUE, TRUE)
    /\ UNCHANGED <<sched, cycles, schedRest>>

SchedAlertSend(out) ==
    /\ AlertSend(out, TRUE)
    /\ UNCHANGED <<sched, cycles, schedRest>>

\* async_job has returned to run_pending, which sets the next run
SchedJobReturn ==
    /\ JobSleep
    /\ sched' = [pos |-> "loop", due |-> FALSE]
    /\ cycles' = [cycles EXCEPT !["main"] = @ - 1]
    /\ UNCHANGED schedRest

SchedCheckStart ==
    /\ CheckStart(TRUE, TRUE)
    /\ cycles' = [cycles EXCEPT !["notifier"] = @ + 1]
    /\ UNCHANGED <<sched, schedRest>>

SchedCheckSend(out) ==
    /\ CheckSend(out, TRUE)
    /\ UNCHANGED <<sched, cycles, schedRest>>

SchedCheckSleep ==
    /\ CheckSleep
    /\ cycles' = [cycles EXCEPT !["notifier"] = @ - 1]
    /\ UNCHANGED <<sched, schedRest>>

NextSched ==
    \/ \E u \in Users : Start(u) /\ UNCHANGED <<sched, cycles, schedRest>>
    \/ \E u \in Users : Stop(u) /\ UNCHANGED <<sched, cycles, schedRest>>
    \/ Tick
    \/ RunPending
    \/ \E batch \in SysBatches : SchedJobRun(batch)
    \/ \E out \in SendOutcomes : SchedAlertSend(out)
    \/ SchedJobReturn
    \/ SchedCheckStart
    \/ \E out \in SendOutcomes : SchedCheckSend(out)
    \/ SchedCheckSleep

SpecSched == Init /\ [][NextSched]_vars

\* ------------------------------------- parse_vacancies as a function
\* the plain item every input departs from in some of its fields
PlainItem ==
    [name |-> "n1", alternate_url |-> "u1", employer |-> "e1", experience |-> "x1",
     schedule |-> "fullDay", salary |-> [given |-> FALSE, from |-> None, to |-> None],
     published_at |-> "iso"]

\* items that differ in what can make the loop body raise, or be defaulted
BatchItems ==
    {[PlainItem EXCEPT !.published_at = pa, !.employer = em, !.alternate_url = url] :
        pa \in {"absent", "malformed", "iso"}, em \in {"absent", "null", "e1"},
        url \in {"absent", "u1", "u2"}}

\* items that differ in schedule and salary
FieldItems ==
    {[PlainItem EXCEPT !.schedule = sc, !.salary = sd] :
        sc \in ScheduleVals, sd \in SalaryVals}

ParseInputs == SeqsUpTo(BatchItems, MaxBatch) \cup {<<it>> : it \in FieldItems}

parseRest == <<dbVars, mainVars, notiVars, got, fails, retryVars, calls, idem,
               region, responses, tried, restVars>>

\* one call on the items get_hh_vacancies returned
ParseRun(items) ==
    /\ ev.kind # "parse"
    /\ all_vacancies' = items
    /\ raw' = ParseItems(items, 1)
    /\ ev' = [NoEv EXCEPT !.kind = "parse", !.by = "main", !.out = "ok"]
    /\ UNCHANGED parseRest

\* the caller is done with the returned list
ParseReturn ==
    /\ ev.kind = "parse"
    /\ all_vacancies' = <<>> /\ raw' = <<>>
    /\ ev' = NoEv
    /\ UNCHANGED parseRest

NextParse ==
    \/ \E items \in ParseInputs : ParseRun(items)
    \/ ParseReturn

SpecParse == Init /\ [][NextParse]_vars

\* ------------------------------- notifier.py running forever
\* main() never leaves its while loop: check_and_notify is called again
\* after every sleep.  The recipients stay as they are, the store answers,
\* and each send is accepted or fails as the channel decides
InitLive ==
    /\ InitStored(MaxLinks)
    /\ users # {}

NextLive ==
    \/ CheckStart(TRUE, TRUE) /\ NoTrack
    \/ \E out \in SendOutcomes : CheckSend(out, TRUE) /\ NoTrack
    \/ CheckSleep /\ NoTrack

SpecLive == InitLive /\ [][NextLive]_vars /\ WF_vars(NextLive)

\* =================================================================== claims

LinksOf(s) == {s[k].link : k \in 1..Len(s)}

\* C1  For every posting p and recipient r the channel accepts at most one
\*     send of p to r: once a send of p to r has succeeded, no later send of
\*     p to r is attempted, in the same cycle or in a later one, also when a
\*     send or a store write fails.
C1_AtMostOnce ==
    [][ev'.kind = "send" => <<ev'.link, ev'.r>> \notin got]_vars

\* C2  sent_notifications holds at most one row for any (vacancy_id, user_id)
\*     pair, whatever check_and_notify cycles and mark_as_sent calls have run,
\*     repeated calls for one pair included.
C2_UniquePair ==
    \A rec \in BagToSet(sent) : CopiesIn(rec, sent) <= 1

\* mark_as_sent has just been called, successfully, for a pair that had its
\* row, and the table holds another row too
C2_Witness ==
    /\ ev.kind = "mark" /\ ev.out = "ok"
    /\ CopiesIn(Rec(ev.link, ev.r), sent) = 1
    /\ \E rec \in BagToSet(sent) : rec # Rec(ev.link, ev.r)

\* C3  The vacancies table holds at most one row for any link, after any
\*     filter_new_vacancies calls on any batches, a link repeated within a
\*     batch or met by two calls at once included.
C3_UniqueLink ==
    \A i \in 1..Len(vacancies), j \in 1..Len(vacancies) :
        vacancies[i].link = vacancies[j].link => i = j

\* an INSERT of a link has just been refused because its row exists
C3_Witness ==
    /\ ev.kind = "insert" /\ ev.out = "unique"
    /\ LinkStored(vacancies, ev.link)

C4_RecordedPairsWereSent ==
    \A rec \in BagToSet(sent) :
        <<LinkOf(vacancies, rec.vacancy_id), rec.user_id>> \in got

C4_WrittenOnlyOnSuccess ==
    /\ sent \sqsubseteq sent'
    /\ sent' # sent =>
          /\ ev'.kind = "send" /\ ev'.by = "notifier" /\ ev'.out = "ok"
          /\ sent' = sent (+) SetToBag({Rec(IdOf(vacancies, ev'.link), ev'.r)})

\* C4  A delivery record for (p, r) is written only by the step in which a
\*     send of p to r has returned success; no record exists for a pair
\*     whose every send failed; a record once written is never changed or
\*     deleted.
C4_RecordOnlyAfterSuccess ==
    [](C4_RecordedPairsWereSent) /\ [][C4_WrittenOnlyOnSuccess]_vars

\* a send of check_and_notify has just failed while another pair has its
\* record: the failed pair, never accepted by the channel, has none
C4_Witness ==
    /\ ev.kind = "send" /\ ev.by = "notifier" /\ ev.out # "ok"
    /\ sent # EmptyBag
    /\ <<ev.link, ev.r>> \notin got
    /\ ~HasRecord(sent, IdOf(vacancies, ev.link), ev.r)

AttemptedThisCheck ==
    {<<nvac[i].link, nusers[j]>> : i \in 1..Len(nvac), j \in 1..Len(nusers)}

\* C5  A pair (p, r) whose send failed transiently in cycle N, r staying
\*     active, is attempted again in cycle N+1 (the store answering the
\*     queries of cycle N+1).
C5_RetriedNextCycle ==
    npc = "done" => \A pr \in owed : pr \in AttemptedThisCheck

PendingForSomeone(row) == \E u \in users : ~HasRecord(sent, row.id, u)

\* C6  get_new_vacancies returns, up to its limit, every stored posting that
\*     lacks a delivery record for at least one active recipient.
C6_PendingReturned ==
    (ev.kind = "query" /\ ev.out = "ok") =>
        \/ Len(nvac) = QueryLimit
        \/ \A row \in Range(vacancies) : PendingForSomeone(row) => row \in Range(nvac)

\* C7  A send to R that fails because R blocked the bot removes R from the
\*     users table.
C7_BlockedRemoved ==
    (ev.kind = "send" /\ ev.out = "blocked") => ev.r \notin users

SecondRunChangesNothing ==
    /\ vacancies = idem.rows1
    /\ sent = idem.sent1
    /\ new_vacancies = <<>>
    /\ ev.kind # "send"

\* C8  The second full cycle on the same raw input, recipients
\*     unchanged and every send succeeding, inserts no posting, reports none
\*     as new, sends nothing and writes no delivery record: the posting rows
\*     and the delivery records stay those the first cycle left.
C8_SecondRunNoOp == idem.n >= 1 => SecondRunChangesNothing

\* what the two cycles do give when no store operation fails: the second one
\* changes nothing if the first check_and_notify found no more pending
\* postings than the limit of get_new_vacancies
C8_SecondRunNoOpWithinLimit == (idem.n >= 1 /\ idem.fit) => SecondRunChangesNothing

\* both cycles are over; the first one stored postings and recorded deliveries
C8_Witness ==
    /\ idem.n = 2 /\ idem.fit
    /\ Len(vacancies) >= 2
    /\ sent # EmptyBag

C9_Returned(before, after, batch, fs, ret, connOK) ==
    /\ \A k \in 1..Len(ret) : ret[k].link \notin LinksOf(before)
    /\ \A i \in 1..Len(ret), j \in 1..Len(ret) : ret[i].link = ret[j].link => i = j
    /\ LinksOf(ret) = LinksOf(after) \ LinksOf(before)
    /\ (connOK /\ \A k \in 1..Len(fs) : fs[k] = "none")
          => LinksOf(batch) \ LinksOf(before) \subseteq LinksOf(ret)

\* C9  filter_new_vacancies returns only postings whose link was not stored
\*     before the call, each such link once, and the returned list is exactly
\*     the set of rows the call inserted; when no store operation fails it
\*     returns every posting of the batch whose link was not stored.
C9_ReturnsExactlyInserted ==
    [][ev'.kind = "filter" =>
          C9_Returned(vacancies, vacancies', raw', fails', new_vacancies', ev'.out = "ok")]_vars

\* C10 A posting whose insert met a store failure is skipped: it is neither
\*     stored nor included in the returned list.
C10_FailedInsertSkipped ==
    ev.kind = "filter" =>
        \A k \in 1..Len(raw) :
            (fails[k] \in {"insert", "commit"} /\ ~LinkStored(vacancies, raw[k].link))
                => raw[k].link \notin LinksOf(new_vacancies)

\* the urls of the items the regions that answered have returned, those the
\* parser keeps
FetchedUrls ==
    {responses[r].items[k].url :
        <<r, k>> \in {pr \in (1..Len(responses)) \X (1..MaxItems) :
                        /\ responses[pr[1]].ok
                        /\ pr[2] <= Len(responses[pr[1]].items)
                        /\ responses[pr[1]].items[pr[2]].dated}}

\* C11 When the fetch for one region fails, the records of every other
\*     region, queried before or after it, are returned by the fetcher,
\*     stored, reported as new and, in the same cycle, sent to every
\*     recipient send_telegram_alert has read.
C11_OtherRegionsProcessed ==
    /\ region = NumRegions + 1
          => LinksOf(parse_vacancies(all_vacancies)) = FetchedUrls
    /\ mpc = "done"
          => \A url \in FetchedUrls :
                /\ LinkStored(vacancies, url)
                /\ url \in LinksOf(new_vacancies)
                /\ \A k \in 1..Len(musers) : <<url, musers[k]>> \in tried

\* the cycle is over; a region in the middle failed, the regions before and
\* after it returned a record each, and both went out to a recipient
C11_Witness ==
    /\ mpc = "done"
    /\ Len(responses) = NumRegions
    /\ \E r \in 2..(NumRegions - 1) :
          /\ ~responses[r].ok
          /\ \E a \in 1..(r - 1), b \in (r + 1)..NumRegions :
                /\ responses[a].ok /\ responses[b].ok
                /\ Len(responses[a].items) = 1 /\ Len(responses[b].items) = 1
                /\ responses[a].items[1].dated /\ responses[b].items[1].dated
                /\ responses[a].items[1].url # responses[b].items[1].url
    /\ Cardinality(tried) >= 2

\* the link an alternate_url has once its query parameters are stripped
Canonical(url) == (url + 1) \div 2

\* C12 Two records whose links differ only by a query-parameter suffix get
\*     the same canonical link: at most one posting is stored, and at most
\*     one reported as new, per link without its query parameters.
C12_OnePostingPerCanonicalLink ==
    /\ \A i \in 1..Len(vacancies), j \in 1..Len(vacancies) :
          Canonical(vacancies[i].link) = Canonical(vacancies[j].link) => i = j
    /\ \A i \in 1..Len(new_vacancies), j \in 1..Len(new_vacancies) :
          Canonical(new_vacancies[i].link) = Canonical(new_vacancies[j].link) => i = j

C14_Bounded(c) ==
    /\ c.attempts <= MaxAttempts
    /\ Len(c.slept) <= MaxAttempts
    /\ c.status = "open" => c.attempts < MaxAttempts
    /\ c.attempts = MaxAttempts => c.status = "raised"

C14_Doubling(c) ==
    \A k \in 2..Len(c.slept) : k <= MaxAttempts - 1 => c.slept[k] = 2 * c.slept[k - 1]

\* C14 get_db_connection makes at most 3 attempts, returns the handle of the
\*     first attempt that succeeds without a further attempt, waits between
\*     consecutive attempts with a delay that doubles each time, and after
\*     the third failed attempt raises.
C14_BoundedAttemptsWithBackoff ==
    /\ [](\A p \in Progs : C14_Bounded(conns[p]) /\ C14_Doubling(conns[p]))
    /\ [][\A p \in Progs :
            conns[p].status = "open" => conns'[p] \in {conns[p], NoConn}]_vars

\* the acquisition has just failed for the third time
C13_AcquisitionExhausted ==
    /\ ev.by = "notifier" /\ ev.kind \in {"query", "users", "mark"}
    /\ ev.out = "error"

\* C13 When get_db_connection has failed 3 times in a row during a cycle,
\*     the cycle is over: until check_and_notify is called again no message
\*     is sent and no delivery record, posting or recipient is written.
C13_CycleAbortsOnExhaustion ==
    [][C13_AcquisitionExhausted =>
          /\ ev'.kind # "send"
          /\ npc' \in {"done", "idle"}
          /\ UNCHANGED dbVars]_vars

\* C15 Neither scheduling loop starts a cycle before the one it started has
\*     returned: each has at most one cycle in flight, also when the
\*     interval elapses while a cycle is running.
C15_OneCycleInFlight ==
    /\ \A p \in DOMAIN cycles : cycles[p] <= 1
    /\ mpc # "idle" => cycles["main"] = 1 /\ sched.pos = "job"
    /\ npc # "idle" => cycles["notifier"] = 1

\* the interval has elapsed again while async_job is in the middle of its
\* sends
C15_Witness ==
    /\ mpc = "alert" /\ ev.kind = "send" /\ ev.by = "main"
    /\ sched.due /\ sched.pos = "job"
    /\ cycles["main"] = 1

\* the users table has been empty since the cycle began: rows are deleted
\* only by send_telegram_alert, after a send it has attempted
C16_NoRecipientsSoFar == users = {} /\ tried = {}

\* no message has gone out, no delivery record exists, and neither program
\* is inside its sending loops or has met an error
C16_NothingSent ==
    /\ got = {} /\ sent = EmptyBag
    /\ mpc # "alert" /\ npc # "send"
    /\ ev.kind # "send" /\ ev.out # "error"

C16_ThreeStored ==
    (region = 0 /\ Cardinality(FetchedUrls) = 3)
        => /\ Len(vacancies) = 3
           /\ LinksOf(vacancies) = FetchedUrls

\* C16 A cycle that finds 3 new postings while the users table is empty
\*     stores the 3 postings, attempts no send, creates no delivery record
\*     and completes without an error.
C16_NoRecipients ==
    C16_NoRecipientsSoFar => (C16_ThreeStored /\ C16_NothingSent)

\* both programs have completed their cycle on 3 new postings and no user
C16_Witness ==
    /\ users = {} /\ musers = <<>> /\ tried = {}
    /\ Len(vacancies) = 3
    /\ Len(nvac) = QueryLimit /\ npc = "done"

\* C17 Within one fan-out of send_telegram_alert, a send to R that failed
\*     because R blocked the bot is not followed by another send to R.
C17_NoSendAfterBlocked ==
    [][(/\ ev.kind = "send" /\ ev.by = "main" /\ ev.out = "blocked"
        /\ ev'.kind = "send" /\ ev'.by = "main")
          => ev'.r # ev.r]_vars

\* the place of a link in the list returned by filter_new_vacancies
C19_Place(link) == Min({k \in 1..Len(new_vacancies) : new_vacancies[k].link = link})

\* C19 Within one fan-out the sends go posting by posting: every attempt for
\*     a posting precedes every attempt for the postings after it in the
\*     list returned by filter_new_vacancies.
C19_PostingMajor ==
    [][(/\ ev.kind = "send" /\ ev.by = "main"
        /\ ev'.kind = "send" /\ ev'.by = "main")
          => C19_Place(ev'.link) >= C19_Place(ev.link)]_vars

\* C18 A send of posting p to recipient r is attempted only if no delivery
\*     record for (p, r) exists at the moment of the attempt.
C18_SendOnlyWithoutRecord ==
    [][ev'.kind = "send"
          => ~HasRecord(sent, IdOf(vacancies, ev'.link), ev'.r)]_vars

\* C20 Re-ingesting a posting whose link is stored leaves the stored row as
\*     it is, whatever values the incoming record carries, and no call ever
\*     changes or deletes a stored row: the table only grows at its end.
C20_StoredRowsUntouched ==
    [][/\ Len(vacancies') >= Len(vacancies)
       /\ \A k \in 1..Len(vacancies) : vacancies'[k] = vacancies[k]]_vars

\* filter_new_vacancies has just met, every store operation succeeding, a
\* record whose link was stored with another title, and found nothing new
C20_Witness ==
    /\ ev.kind = "filter" /\ ev.out = "ok"
    /\ new_vacancies = <<>>
    /\ \E k \in 1..Len(raw), j \in 1..Len(vacancies) :
          /\ fails[k] = "none"
          /\ vacancies[j].link = raw[k].link
          /\ vacancies[j].title # raw[k].title

\* the items of the batch that parse, in input order
RECURSIVE C21_Kept(_, _)
C21_Kept(items, k) ==
    IF k > Len(items) THEN <<>>
    ELSE (IF items[k].published_at = "iso" /\ items[k].employer # "null"
                /\ items[k].experience # "null"
          THEN <<items[k]>> ELSE <<>>) \o C21_Kept(items, k + 1)

\* C21 A record that lacks published_at, or whose published_at does not
\*     parse, is dropped from the output of parse_vacancies, and every other
\*     record of the batch is normalized and returned, in input order.
C21_BadRecordsDropped ==
    ev.kind = "parse" =>
        LET kept == C21_Kept(all_vacancies, 1)
        IN  /\ Len(raw) = Len(kept)
            /\ \A k \in 1..Len(kept) :
                  /\ raw[k].link = (IF kept[k].alternate_url = "absent" THEN ""
                                     ELSE kept[k].alternate_url)
                  /\ raw[k].company = (IF kept[k].employer = "absent" THEN ""
                                        ELSE kept[k].employer)
                  /\ raw[k].published_at = "dmy"

\* a batch whose first record has a malformed timestamp and whose second
\* record came through
C21_Witness ==
    /\ ev.kind = "parse"
    /\ Len(all_vacancies) = 2 /\ Len(raw) = 1
    /\ all_vacancies[1].published_at = "malformed"
    /\ raw[1].link = all_vacancies[2].alternate_url

\* the work format named for each value of the schedule descriptor
C22_Class(sc) ==
    IF sc = "remote" THEN "remote"
    ELSE IF sc = "flexible" THEN "flexible"
    ELSE IF sc \in {"absent", "null", "empty"} THEN "unspecified"
    ELSE "office"

\* C22 work_format depends on the schedule descriptor alone: code "remote"
\*     gives Remote, "flexible" gives Flexible, any other descriptor that
\*     carries something gives OnSite, and no descriptor (a missing key,
\*     null or the empty default) gives Unspecified.
C22_WorkFormatBySchedule ==
    (ev.kind = "parse" /\ Len(all_vacancies) = 1 /\ Len(raw) = 1)
        => raw[1].work_format = C22_Class(all_vacancies[1].schedule)

\* a descriptor with a code other than the two named, and a salary besides
C22_Witness ==
    /\ ev.kind = "parse" /\ Len(all_vacancies) = 1 /\ Len(raw) = 1
    /\ all_vacancies[1].schedule = "fullDay"
    /\ all_vacancies[1].salary.given
    /\ raw[1].work_format = "office"

\* C23 format_salary chooses its form by the presence of the bounds only:
\*     both present, 0 included, gives the closed range, exactly one
\*     present the matching open-ended form, none "unspecified".
C23_FormByPresence ==
    (ev.kind = "parse" /\ Len(all_vacancies) = 1 /\ Len(raw) = 1)
        => LET sd == all_vacancies[1].salary
               lo == sd.given /\ sd.from # None
               hi == sd.given /\ sd.to # None
           IN  raw[1].salary.form = (IF lo /\ hi THEN "range"
                                     ELSE IF lo THEN "from"
                                     ELSE IF hi THEN "upTo"
                                     ELSE "unspecified")

\* C24 Two filter_new_vacancies calls interleaved at their store operations
\*     on batches with the same unstored link: at most one row is stored
\*     for the link, and at most one of the two calls returns it as new.
C24_NewForOneCallOnly ==
    /\ C3_UniqueLink
    /\ (\A c \in Callers : calls[c].phase = "out")
          => LinksOf(calls[1].new) \cap LinksOf(calls[2].new) = {}

\* C25 Once /stop has deleted recipient R, no send to R is attempted until
\*     R registers again, also when R is deleted while a fan-out that has
\*     loaded R is in progress: a send goes to rows of the users table only.
C25_NoSendAfterStop ==
    [][ev'.kind = "send" => ev'.r \in users]_vars

\* C26 With a recipient and cycles running forever, every stored posting is
\*     eventually selected by get_new_vacancies and has a send attempted,
\*     also when more postings are pending than the limit and the sends for
\*     those selected first keep failing.
C26_EveryPostingAttempted ==
    \A l \in Links :
        LinkStored(vacancies, l) => <>(ev.kind = "send" /\ ev.link = l)

====
